---- MODULE Spec2Model ----
(***************************************************************************)
(* Model of shader_src/compile_shaders.py: a build script that compiles    *)
(* every *.glsl file under its own directory with glslangValidator into a  *)
(* mirrored tree under ../res/shaders, skipping a file when its output     *)
(* carries the same modification timestamp as the source.                   *)
(*                                                                         *)
(* The file system keeps timestamps as integer clock ticks; the script     *)
(* reads them as floats (os.path.getmtime / getatime) and writes them back *)
(* from floats (os.utime).  A float cannot represent every tick, so a read *)
(* rounds to the nearest representable value and a write stores the ticks  *)
(* of that value.                                                          *)
(***************************************************************************)
EXTENDS Integers, Sequences, FiniteSets, TLC

\* ---- bounds of the model ----
MaxTime == 2
Gran == 2
MaxEdits == 1
MaxRuns == 2

\* ---- the environment the script runs in ----
\* source files below the script directory, by path relative to it:
\* one top-level file and one nested file
Sources ==
  { [dir |-> << >>, name |-> <<"t", ".glsl">>],
    [dir |-> <<"a">>, name |-> <<"n", ".glsl">>] }

ScriptDir == "shader_src"
Elsewhere == "elsewhere"
WorkDirs == {ScriptDir, Elsewhere}

ExitCodes == {0, 1}

\* ---- paths ----
Prefixes(d) == { SubSeq(d, 1, k) : k \in 1..Len(d) }

\* out_path = cwd.parent/'res'/'shaders'/rel_path, then
\* out_path.with_suffix(out_path.suffix + '.spv')
OutPath(path) ==
  [dir |-> <<"res", "shaders">> \o path.dir,
   name |-> SubSeq(path.name, 1, Len(path.name) - 1)
              \o <<path.name[Len(path.name)], ".spv">>]

OutFiles == { OutPath(s) : s \in Sources }

\* the directories above an output file, below cwd.parent (which exists)
Ancestors(out_path) == Prefixes(out_path.dir)

DirExists(dirs, d) == d = << >> \/ d \in dirs

\* pathlib.Path.mkdir(parents, exist_ok) on directory d
Mkdir(dirs, d, parents, exist_ok) ==
  IF DirExists(dirs, d)
  THEN [raised |-> ~exist_ok, dirs |-> dirs]
  ELSE IF DirExists(dirs, SubSeq(d, 1, Len(d) - 1))
       THEN [raised |-> FALSE, dirs |-> dirs \cup {d}]
       ELSE IF parents
            THEN [raised |-> FALSE, dirs |-> dirs \cup Prefixes(d)]
            ELSE [raised |-> TRUE, dirs |-> dirs]

MkdirNoParents(dirs, out_path) == Mkdir(dirs, out_path.dir, FALSE, TRUE)

\* out_path.parent.mkdir(parents=True, exist_ok=True)
MkdirParent(dirs, out_path) == Mkdir(dirs, out_path.dir, TRUE, TRUE)

\* ---- timestamps ----
\* a stat field read as a float: the nearest representable value
FloatTime(ticks) == (2 * ticks + Gran) \div (2 * Gran)

TicksOfTruncated(f) == IF f = 0 THEN 0 ELSE f * Gran - Gran

\* a float handed to os.utime: the ticks it stands for
TicksOf(f) == f * Gran

getmtime(file) == FloatTime(file.mtime)

getatime(file) == FloatTime(file.atime)

utime(file, atime, mtime) ==
  [file EXCEPT !.atime = TicksOf(atime), !.mtime = TicksOf(mtime)]

\* ---- files ----
NoFile ==
  [exists |-> FALSE, mtime |-> 0, atime |-> 0, content |-> 0, valid |-> FALSE]

\* glslangValidator -V100 -o out_path path, run at clock time t on a source
\* of the given content: exit code 0 leaves a valid artifact; a non-zero
\* exit code leaves either what was there or a partial file
Compiler(file, content, t, code, wrote) ==
  IF code = 0 \/ wrote
  THEN [exists |-> TRUE, mtime |-> t,
        atime |-> IF file.exists THEN file.atime ELSE t,
        content |-> content, valid |-> (code = 0)]
  ELSE file

\* ---- the decisions of the script ----
CwdAssertOff(dir) == TRUE

\* assert cwd == Path(__file__).resolve().parent
CwdAssert(dir) == dir = ScriptDir

ProbeChecked(found, code) == ~found \/ code # 0

\* subprocess.call('glslangValidator', stdout=DEVNULL): raises when the
\* executable is not found, ignores the exit code
ProbeRaises(found, code) == ~found

StaleNewer(file, modified_time) ==
  ~file.exists \/ modified_time > getmtime(file)

\* not out_path.exists() or modified_time != os.path.getmtime(out_path)
Stale(file, modified_time) ==
  ~file.exists \/ modified_time # getmtime(file)

CallIgnoresExit(found, code) == ~found

\* subprocess.check_call([...]): raises when the executable is not found
\* or exits non-zero
CheckCallRaises(found, code) == ~found \/ code # 0

RestampSwapped(file, modified_time) ==
  utime(file, modified_time, getatime(file))

RestampNone(file, modified_time) == file

\* os.utime(out_path, (os.path.getatime(out_path), modified_time))
Restamp(file, modified_time) ==
  utime(file, getatime(file), modified_time)

\* itertools.chain(a, b)
Chain(a, b) == a \o b

GlobTopLevel == { s \in Sources : s.dir = << >> }

\* cwd.glob('**/*.glsl'): the source files at any depth
GlobMatches == Sources

\* the orders in which a scan can yield the files it matches
Orders ==
  { q \in [1..Cardinality(GlobMatches) -> GlobMatches] :
      \A i, j \in 1..Cardinality(GlobMatches) : i # j => q[i] # q[j] }

\* ---- state ----
VARIABLES
  now,        \* the clock, in ticks
  src,        \* source files: modification time and content version
  out,        \* the files at the output paths
  outDirs,    \* the directories that exist below cwd.parent
  pc,         \* where the script is: idle, probe, glob, loop, done, failed
  cwd,        \* working directory of the current run
  found,      \* whether glslangValidator is on the search path
  queue,      \* the chained enumeration
  pos,        \* index of the next element of queue
  exitStatus, \* -1 while running, else the process exit status
  probe,      \* outcome of the probe: none, absent, zero, nonzero
  subprocs,   \* subprocesses started by the current run
  invCount,   \* compiler invocations per source in the current run
  visit,      \* what the latest compile_shader call did
  failSeen,   \* a compiler invocation of the current run failed
  edited,     \* a source was modified since the current run started
  prevClean,  \* the previous run exited 0 and no source was modified since it started
  runs,       \* runs started
  edits       \* source modifications made

vars ==
  <<now, src, out, outDirs, pc, cwd, found, queue, pos, exitStatus, probe,
    subprocs, invCount, visit, failSeen, edited, prevClean, runs, edits>>

NoVisit ==
  [active |-> FALSE, index |-> 0, path |-> CHOOSE s \in Sources : TRUE,
   srcBefore |-> [mtime |-> 0, content |-> 0], modified_time |-> 0,
   before |-> NoFile, dirsBefore |-> {}, mkdirRaised |-> FALSE,
   invoked |-> FALSE, started |-> FALSE, code |-> 0, dirsAtInvoke |-> {},
   afterCompiler |-> NoFile]

Init ==
  /\ now = 0
  /\ src = [s \in Sources |-> [mtime |-> 0, content |-> 0]]
  /\ out = [o \in OutFiles |-> NoFile]
  /\ outDirs \in { Prefixes(SubSeq(<<"res", "shaders", "a">>, 1, k)) : k \in 0..3 }
  /\ pc = "idle"
  /\ cwd = ScriptDir
  /\ found = TRUE
  /\ queue = << >>
  /\ pos = 1
  /\ exitStatus = 0
  /\ probe = "none"
  /\ subprocs = 0
  /\ invCount = [s \in Sources |-> 0]
  /\ visit = NoVisit
  /\ failSeen = FALSE
  /\ edited = FALSE
  /\ prevClean = FALSE
  /\ runs = 0
  /\ edits = 0

\* ---- the environment ----
Tick ==
  /\ now < MaxTime
  /\ now' = now + 1
  /\ UNCHANGED <<src, out, outDirs, pc, cwd, found, queue, pos, exitStatus,
                 probe, subprocs, invCount, visit, failSeen, edited,
                 prevClean, runs, edits>>

\* the user saves a new version of a source file
Edit ==
  /\ edits < MaxEdits
  /\ \E s \in Sources :
       src' = [src EXCEPT ![s] = [mtime |-> now, content |-> @.content + 1]]
  /\ edits' = edits + 1
  /\ edited' = TRUE
  /\ prevClean' = FALSE
  /\ UNCHANGED <<now, out, outDirs, pc, cwd, found, queue, pos, exitStatus,
                 probe, subprocs, invCount, visit, failSeen, runs>>

\* ---- the script ----
\* the script is started in some directory; lines 8-9
Start ==
  /\ pc \in {"idle", "done", "failed"}
  /\ runs < MaxRuns
  /\ runs' = runs + 1
  /\ \E d \in WorkDirs, f \in BOOLEAN :
       /\ cwd' = d
       /\ found' = f
       /\ IF CwdAssert(d)
          THEN pc' = "probe" /\ exitStatus' = -1
          ELSE pc' = "failed" /\ exitStatus' = 1
  /\ prevClean' = (pc = "done" /\ ~edited)
  /\ edited' = FALSE
  /\ queue' = << >>
  /\ pos' = 1
  /\ probe' = "none"
  /\ subprocs' = 0
  /\ invCount' = [s \in Sources |-> 0]
  /\ visit' = NoVisit
  /\ failSeen' = FALSE
  /\ UNCHANGED <<now, src, out, outDirs, edits>>

\* line 10
Probe ==
  /\ pc = "probe"
  /\ \E code \in ExitCodes :
       /\ probe' = IF ~found THEN "absent"
                   ELSE IF code = 0 THEN "zero" ELSE "nonzero"
       /\ IF ProbeRaises(found, code)
          THEN pc' = "failed" /\ exitStatus' = 1
          ELSE pc' = "glob" /\ exitStatus' = exitStatus
  /\ subprocs' = IF found THEN subprocs + 1 ELSE subprocs
  /\ UNCHANGED <<now, src, out, outDirs, cwd, found, queue, pos, invCount,
                 visit, failSeen, edited, prevClean, runs, edits>>

\* line 27: the two scans of the same tree
Glob ==
  /\ pc = "glob"
  /\ \E o \in Orders : queue' = Chain(o, o)
  /\ pos' = 1
  /\ pc' = "loop"
  /\ UNCHANGED <<now, src, out, outDirs, cwd, found, exitStatus, probe,
                 subprocs, invCount, visit, failSeen, edited, prevClean,
                 runs, edits>>

\* lines 13-24, called from line 28 on the next enumerated file
CompileShader ==
  /\ pc = "loop"
  /\ pos <= Len(queue)
  /\ \E code \in ExitCodes, wrote \in BOOLEAN :
       LET path == queue[pos]
           out_path == OutPath(path)
           md == MkdirParent(outDirs, out_path)
           modified_time == getmtime(src[path])
           stale == ~md.raised /\ Stale(out[out_path], modified_time)
           afterCompiler ==
             IF stale /\ found
             THEN Compiler(out[out_path], src[path].content, now, code, wrote)
             ELSE out[out_path]
           raised ==
             \/ md.raised
             \/ stale /\ CheckCallRaises(found, code)
             \/ stale /\ ~afterCompiler.exists
       IN /\ outDirs' = md.dirs
          /\ out' = [out EXCEPT ![out_path] =
                       IF ~stale THEN @
                       ELSE IF raised THEN afterCompiler
                       ELSE Restamp(afterCompiler, modified_time)]
          /\ subprocs' = IF stale /\ found THEN subprocs + 1 ELSE subprocs
          /\ invCount' = [invCount EXCEPT ![path] = IF stale THEN @ + 1 ELSE @]
          /\ failSeen' = (failSeen \/ (stale /\ (~found \/ code # 0)))
          /\ visit' = [active |-> TRUE, index |-> pos, path |-> path,
                       srcBefore |-> src[path],
                       modified_time |-> modified_time,
                       before |-> out[out_path], dirsBefore |-> outDirs,
                       mkdirRaised |-> md.raised,
                       invoked |-> stale, started |-> stale /\ found,
                       code |-> IF stale /\ found THEN code ELSE 0,
                       dirsAtInvoke |-> md.dirs,
                       afterCompiler |-> afterCompiler]
          /\ IF raised
             THEN pc' = "failed" /\ exitStatus' = 1 /\ pos' = pos
             ELSE pc' = pc /\ exitStatus' = exitStatus /\ pos' = pos + 1
  /\ UNCHANGED <<now, src, cwd, found, queue, probe, edited, prevClean, runs, edits>>

\* the enumeration is exhausted: the script ends
Finish ==
  /\ pc = "loop"
  /\ pos > Len(queue)
  /\ pc' = "done"
  /\ exitStatus' = 0
  /\ UNCHANGED <<now, src, out, outDirs, cwd, found, queue, pos, probe,
                 subprocs, invCount, visit, failSeen, edited, prevClean,
                 runs, edits>>

Next == Tick \/ Edit \/ Start \/ Probe \/ Glob \/ CompileShader \/ Finish

Spec == Init /\ [][Next]_vars

\* ---- properties ----
VisitOut == out[OutPath(visit.path)]

Occurrences(q, s) == Cardinality({ i \in 1..Len(q) : q[i] = s })

\* C1: compile_shader invokes the compiler exactly when the output is
\* missing or its modification timestamp differs from the timestamp of the
\* source; otherwise nothing is invoked and the output file is untouched.
C1_StalenessDecision ==
  visit.active =>
    /\ visit.invoked <=>
         (\/ ~visit.before.exists
          \/ FloatTime(visit.srcBefore.mtime) # FloatTime(visit.before.mtime))
    /\ visit.invoked <=> visit.started
    /\ ~visit.invoked => VisitOut = visit.before

\* a file whose output existed with the timestamp of the source was skipped
C1_Witness ==
  /\ visit.active
  /\ ~visit.invoked
  /\ visit.before.exists
  /\ visit.before.mtime # visit.srcBefore.mtime

C3_TimestampPropagation ==
  visit.active =>
    /\ (visit.started /\ visit.code = 0) =>
         /\ VisitOut.exists
         /\ getmtime(VisitOut) = FloatTime(visit.srcBefore.mtime)
         /\ getatime(VisitOut) = getatime(visit.afterCompiler)
         /\ VisitOut.content = visit.afterCompiler.content
         /\ VisitOut.valid
    /\ (visit.invoked /\ ~(visit.started /\ visit.code = 0)) =>
         VisitOut = visit.afterCompiler
    /\ ~visit.invoked => VisitOut = visit.before

\* a successful compile whose output was written at another time than the
\* source's
C3_Witness ==
  /\ visit.active
  /\ visit.started
  /\ visit.code = 0
  /\ getmtime(visit.afterCompiler) # visit.modified_time

\* C4: once a compiler invocation has failed, the run is over with a
\* non-zero exit status: the failing file is the last one processed, its
\* output is as the compiler left it, and nothing more is created, invoked or
\* restamped in that run.
C4_FatalHalt ==
  /\ [](failSeen =>
          /\ pc = "failed"
          /\ exitStatus # 0
          /\ visit.active /\ visit.invoked
          /\ visit.index = pos /\ queue[pos] = visit.path
          /\ VisitOut = visit.afterCompiler)
  /\ [][failSeen /\ failSeen' =>
          UNCHANGED <<out, outDirs, invCount, subprocs, pos, visit, pc, exitStatus>>]_vars

\* the first file failed, left a partial output, and later files are pending
C4_Witness ==
  /\ failSeen
  /\ pc = "failed"
  /\ pos = 1
  /\ visit.afterCompiler.exists
  /\ ~visit.afterCompiler.valid
  /\ \E s \in Sources : invCount[s] = 0

\* C5: a run started outside the script directory fails at once: no probe,
\* no enumeration, no subprocess, and no change to the output tree.
C5_Precondition ==
  [][cwd' # ScriptDir =>
       /\ pc' = "failed"
       /\ exitStatus' # 0
       /\ probe' = "none"
       /\ subprocs' = 0
       /\ queue' = << >>
       /\ ~visit'.active
       /\ out' = out
       /\ outDirs' = outDirs]_vars

\* a run from the wrong directory has failed next to an existing output tree
C5_Witness ==
  /\ cwd # ScriptDir
  /\ pc = "failed"
  /\ \E o \in OutFiles : out[o].exists

\* C6 as stated: whatever goes wrong in the probe (executable not found, or
\* a non-zero exit), the run goes on and can only fail at a compiler
\* invocation.
C6_Original ==
  probe \in {"absent", "nonzero"} => (pc = "failed" => failSeen)

\* C6 amended: a probe that runs and exits non-zero is ignored and the run
\* goes on to enumerate; a probe that does not find the executable ends the
\* run with a failure before anything is enumerated.
C6_ProbeOutcome ==
  /\ probe \in {"zero", "nonzero"} => (pc = "failed" => failSeen)
  /\ probe \in {"zero", "nonzero"} => pc # "probe" /\ found /\ subprocs >= 1
  /\ probe = "absent" =>
       /\ pc = "failed"
       /\ exitStatus # 0
       /\ queue = << >>
       /\ ~visit.active
       /\ subprocs = 0

\* a run whose probe exited non-zero went on and completed
C6_Witness ==
  /\ probe = "nonzero"
  /\ pc = "done"
  /\ \E s \in Sources : invCount[s] > 0

\* C7: creating the directories above the output never fails, they all
\* exist after every compile_shader call, skipped or not, and they existed
\* when the compiler was invoked.
C7_DirectoryBeforeCompile ==
  visit.active =>
    /\ ~visit.mkdirRaised
    /\ Ancestors(OutPath(visit.path)) \subseteq outDirs
    /\ visit.invoked =>
         Ancestors(OutPath(visit.path)) \subseteq visit.dirsAtInvoke
    /\ visit.dirsBefore \subseteq outDirs

\* the compiler ran for a file some of whose directories were missing and
\* some present
C7_Witness ==
  /\ visit.active
  /\ visit.started
  /\ visit.dirsBefore # {}
  /\ ~(Ancestors(OutPath(visit.path)) \subseteq visit.dirsBefore)

AllProcessed ==
  /\ pos > Len(queue)
  /\ \A s \in Sources : \E i \in 1..Len(queue) : queue[i] = s

UpToDate(s) ==
  /\ out[OutPath(s)].exists
  /\ getmtime(out[OutPath(s)]) = getmtime(src[s])

Running == pc \in {"probe", "glob", "loop"}

RunStep == Probe \/ Glob \/ CompileShader \/ Finish

\* how far the run has come; a finished run has the largest rank
Rank ==
  CASE pc = "probe" -> 0
    [] pc = "glob" -> 1
    [] pc = "loop" -> 1 + pos
    [] OTHER -> 2 * Cardinality(Sources) + 3

C9_DuplicateEnumeration ==
  /\ pc \in {"loop", "done"} => \A s \in Sources : Occurrences(queue, s) = 2
  /\ ~edited => \A s \in Sources : invCount[s] <= 1
  /\ (~edited /\ visit.active /\ visit.index > Cardinality(Sources)) =>
       /\ ~visit.invoked
       /\ VisitOut = visit.before
       /\ outDirs = visit.dirsBefore

\* a run compiled a source on the first visit and has passed the second
C9_Witness ==
  /\ ~edited
  /\ pc = "done"
  /\ visit.index = 2 * Cardinality(Sources)
  /\ \E s \in Sources : invCount[s] = 1

\* C10: an output that exists with the modification timestamp of its source
\* was produced by a compiler invocation that exited 0 on the current
\* content of that source.
C10_SkippedOutputValid ==
  \A s \in Sources :
    UpToDate(s) =>
      /\ out[OutPath(s)].valid
      /\ out[OutPath(s)].content = src[s].content

====
